---- MODULE Spec2Model ----
(***************************************************************************)
(* Model of the serial command loop of microbit/src/08-i2c/src/main.rs:    *)
(* read_command / try_read_command / try_fill_buffer_with_echo and the     *)
(* sensor poll-and-report loop of main.                                    *)
(*                                                                         *)
(* Text is modelled as its UTF-8 bytes (sequences of integers 0..255): a   *)
(* Rust &str obtained by core::str::from_utf8 is the same bytes, checked.  *)
(* The serial transport and the sensor driver are external: every call of  *)
(* one either succeeds or fails, chosen by the environment.                *)
(***************************************************************************)
EXTENDS Integers, Sequences, FiniteSets, TLC

(***************************************************************************)
(* Bounds of the model.                                                    *)
(***************************************************************************)
\* Longest generated line the operator types (the fixed lines below are extra).
MaxLineLen == 20
\* Stale status polls recorded in the log per dispatch; further ones repeat.
MaxStale == 2

(***************************************************************************)
(* Program constants.                                                      *)
(***************************************************************************)
\* Vec<u8, 16>
Capacity == 16
\* b'\r'
CR == 13

\* "Available commands: \"magnetometer\" and \"accelerometer\": \r" + '\n'
PROMPT ==
    << 65, 118, 97, 105, 108, 97, 98, 108, 101, 32, 99, 111, 109, 109, 97,
       110, 100, 115, 58, 32, 34, 109, 97, 103, 110, 101, 116, 111, 109, 101,
       116, 101, 114, 34, 32, 97, 110, 100, 32, 34, 97, 99, 99, 101, 108,
       101, 114, 111, 109, 101, 116, 101, 114, 34, 58, 32, 13, 10 >>
\* "*** error ***\r\n"
ERROR_BANNER ==
    << 42, 42, 42, 32, 101, 114, 114, 111, 114, 32, 42, 42, 42, 13, 10 >>
\* "\r" + '\n': the tail every writeln! here ends with
CRLF ==
    << 13, 10 >>
\* "magnetometer"
MAGNETOMETER ==
    << 109, 97, 103, 110, 101, 116, 111, 109, 101, 116, 101, 114 >>
\* "accelerometer"
ACCELEROMETER ==
    << 97, 99, 99, 101, 108, 101, 114, 111, 109, 101, 116, 101, 114 >>
\* "Magnetic field (nT): x "
MAG_LABEL ==
    << 77, 97, 103, 110, 101, 116, 105, 99, 32, 102, 105, 101, 108, 100, 32,
       40, 110, 84, 41, 58, 32, 120, 32 >>
\* "Acceleration (mg): x "
ACCEL_LABEL ==
    << 65, 99, 99, 101, 108, 101, 114, 97, 116, 105, 111, 110, 32, 40, 109,
       103, 41, 58, 32, 120, 32 >>
\* " y "
SEP_Y ==
    << 32, 121, 32 >>
\* " z "
SEP_Z ==
    << 32, 122, 32 >>
\* "serial communication: "
MSG_UARTE ==
    << 115, 101, 114, 105, 97, 108, 32, 99, 111, 109, 109, 117, 110, 105, 99,
       97, 116, 105, 111, 110, 58, 32 >>
\* "command word too long"
MSG_PUSH ==
    << 99, 111, 109, 109, 97, 110, 100, 32, 119, 111, 114, 100, 32, 116, 111,
       111, 32, 108, 111, 110, 103 >>
\* "unrecognized command: "
MSG_UNRECOGNIZED ==
    << 117, 110, 114, 101, 99, 111, 103, 110, 105, 122, 101, 100, 32, 99, 111,
       109, 109, 97, 110, 100, 58, 32 >>
\* "utf8 conversion: "
MSG_UTF8 ==
    << 117, 116, 102, 56, 32, 99, 111, 110, 118, 101, 114, 115, 105, 111, 110,
       58, 32 >>
\* "formatted write: "
MSG_WRITE ==
    << 102, 111, 114, 109, 97, 116, 116, 101, 100, 32, 119, 114, 105, 116, 101,
       58, 32 >>

(***************************************************************************)
(* Library texts the Display impl interpolates ({} and {:?} of the error   *)
(* payloads).                                                              *)
(***************************************************************************)
\* Display of core::fmt::Error: "an error occurred when formatting an argument"
FMT_ERROR_TEXT ==
    << 97, 110, 32, 101, 114, 114, 111, 114, 32, 111, 99, 99, 117, 114, 114,
       101, 100, 32, 119, 104, 101, 110, 32, 102, 111, 114, 109, 97, 116, 116,
       105, 110, 103, 32, 97, 110, 32, 97, 114, 103, 117, 109, 101, 110, 116 >>
\* Display of Utf8Error with error_len: "invalid utf-8 sequence of "
UTF8_INVALID_TEXT ==
    << 105, 110, 118, 97, 108, 105, 100, 32, 117, 116, 102, 45, 56, 32, 115,
       101, 113, 117, 101, 110, 99, 101, 32, 111, 102, 32 >>
\* " bytes from index "
UTF8_FROM_TEXT ==
    << 32, 98, 121, 116, 101, 115, 32, 102, 114, 111, 109, 32, 105, 110, 100,
       101, 120, 32 >>
\* Display of Utf8Error without error_len: "incomplete utf-8 byte sequence from index "
UTF8_INCOMPLETE_TEXT ==
    << 105, 110, 99, 111, 109, 112, 108, 101, 116, 101, 32, 117, 116, 102, 45,
       56, 32, 98, 121, 116, 101, 32, 115, 101, 113, 117, 101, 110, 99, 101,
       32, 102, 114, 111, 109, 32, 105, 110, 100, 101, 120, 32 >>

\* The uarte::Error values the transport reports (by their Debug names).
UarteErrors == {"Receive", "Transmit"}

\* {:?} of a uarte::Error: the variant's name.
UarteDebug(e) ==
    IF e = "Receive" THEN << 82, 101, 99, 101, 105, 118, 101 >>
    ELSE << 84, 114, 97, 110, 115, 109, 105, 116 >>

(***************************************************************************)
(* {} of an integer: decimal digits, '-' first for a negative one.         *)
(***************************************************************************)
RECURSIVE FmtNat(_)
FmtNat(n) ==
    IF n < 10 THEN << 48 + n >>
    ELSE FmtNat(n \div 10) \o << 48 + (n % 10) >>

FmtInt(n) ==
    IF n < 0 THEN << 45 >> \o FmtNat(0 - n) ELSE FmtNat(n)

(***************************************************************************)
(* core::str::from_utf8: the validation of line 125.  Utf8Scan(v, i) is    *)
(* the scan from index i (1-based here); the result carries Utf8Error's    *)
(* valid_up_to (0-based, as Rust reports it) and error_len (0 for None).   *)
(***************************************************************************)
IsCont(b) == 128 <= b /\ b <= 191

Utf8CharWidth(b) ==
    IF b < 128 THEN 1
    ELSE IF 194 <= b /\ b <= 223 THEN 2
    ELSE IF 224 <= b /\ b <= 239 THEN 3
    ELSE IF 240 <= b /\ b <= 244 THEN 4
    ELSE 0

\* The (first, second) pairs a 3-byte sequence may start with.
Utf8Second3(f, s) ==
    \/ f = 224 /\ 160 <= s /\ s <= 191
    \/ 225 <= f /\ f <= 236 /\ IsCont(s)
    \/ f = 237 /\ 128 <= s /\ s <= 159
    \/ 238 <= f /\ f <= 239 /\ IsCont(s)

\* The (first, second) pairs a 4-byte sequence may start with.
Utf8Second4(f, s) ==
    \/ f = 240 /\ 144 <= s /\ s <= 191
    \/ 241 <= f /\ f <= 243 /\ IsCont(s)
    \/ f = 244 /\ 128 <= s /\ s <= 143

Utf8Bad(i, len) == [ok |-> FALSE, valid_up_to |-> i - 1, error_len |-> len]

RECURSIVE Utf8Scan(_, _)
Utf8Scan(v, i) ==
    IF i > Len(v) THEN [ok |-> TRUE, valid_up_to |-> Len(v), error_len |-> 0]
    ELSE LET w == Utf8CharWidth(v[i])
             n == Len(v)
         IN  CASE w = 1 -> Utf8Scan(v, i + 1)
               [] w = 2 ->
                    IF i + 1 > n THEN Utf8Bad(i, 0)
                    ELSE IF ~IsCont(v[i + 1]) THEN Utf8Bad(i, 1)
                    ELSE Utf8Scan(v, i + 2)
               [] w = 3 ->
                    IF i + 1 > n THEN Utf8Bad(i, 0)
                    ELSE IF ~Utf8Second3(v[i], v[i + 1]) THEN Utf8Bad(i, 1)
                    ELSE IF i + 2 > n THEN Utf8Bad(i, 0)
                    ELSE IF ~IsCont(v[i + 2]) THEN Utf8Bad(i, 2)
                    ELSE Utf8Scan(v, i + 3)
               [] w = 4 ->
                    IF i + 1 > n THEN Utf8Bad(i, 0)
                    ELSE IF ~Utf8Second4(v[i], v[i + 1]) THEN Utf8Bad(i, 1)
                    ELSE IF i + 2 > n THEN Utf8Bad(i, 0)
                    ELSE IF ~IsCont(v[i + 2]) THEN Utf8Bad(i, 2)
                    ELSE IF i + 3 > n THEN Utf8Bad(i, 0)
                    ELSE IF ~IsCont(v[i + 3]) THEN Utf8Bad(i, 3)
                    ELSE Utf8Scan(v, i + 4)
               [] OTHER -> Utf8Bad(i, 1)

FromUtf8(v) == Utf8Scan(v, 1)

\* Display of core::str::Utf8Error.
Utf8ErrorText(valid_up_to, error_len) ==
    IF error_len > 0
    THEN UTF8_INVALID_TEXT \o FmtInt(error_len) \o UTF8_FROM_TEXT
         \o FmtInt(valid_up_to)
    ELSE UTF8_INCOMPLETE_TEXT \o FmtInt(valid_up_to)

(***************************************************************************)
(* Error values.  FillBufferError (lines 24-47) and Error (lines 49-84).   *)
(***************************************************************************)
NoError == [tag |-> "None"]

\* impl From<u8> for FillBufferError
FillFromU8(value) == [tag |-> "PushError", byte |-> value]

\* impl From<core::fmt::Error> for FillBufferError
FillFromFmt == [tag |-> "Write"]

\* impl From<uarte::Error> for FillBufferError
FillFromUarte(value) == [tag |-> "UarteError", uarte |-> value]

\* impl From<FillBufferError> for Error
\* Faulty variant: the rejected byte is lost in the conversion.
ErrorFromFill_DropsByte(value) ==
    CASE value.tag = "PushError" -> [tag |-> "Push", byte |-> 0]
      [] value.tag = "UarteError" -> [tag |-> "Uarte", uarte |-> value.uarte]
      [] OTHER -> [tag |-> "Write"]

ErrorFromFill(value) ==
    CASE value.tag = "PushError" -> [tag |-> "Push", byte |-> value.byte]
      [] value.tag = "UarteError" -> [tag |-> "Uarte", uarte |-> value.uarte]
      [] OTHER -> [tag |-> "Write"]

\* impl From<Utf8Error> for Error
ErrorFromUtf8(r) ==
    [tag |-> "Utf8", valid_up_to |-> r.valid_up_to, error_len |-> r.error_len]

\* Error::Unrecognized(word)
Unrecognized(word) == [tag |-> "Unrecognized", text |-> word]

\* impl Display for Error
\* Faulty variant: one text for every error.
Display_Generic(e) ==
    MSG_UNRECOGNIZED

Display(e) ==
    CASE e.tag = "Uarte" -> MSG_UARTE \o UarteDebug(e.uarte)
      [] e.tag = "Push" -> MSG_PUSH
      [] e.tag = "Unrecognized" -> MSG_UNRECOGNIZED \o e.text
      [] e.tag = "Utf8" -> MSG_UTF8 \o Utf8ErrorText(e.valid_up_to, e.error_len)
      [] OTHER -> MSG_WRITE \o FMT_ERROR_TEXT

\* writeln!(serial, "*** error ***\r\n{}\r", err)
ErrorReport(e) == ERROR_BANNER \o Display(e) \o CRLF

(***************************************************************************)
(* heapless::Vec<u8, 16>::push: Err(item) when the vector is full.         *)
(***************************************************************************)
\* Faulty variant: a vector that grows without limit.
VecPush_Unbounded(v, b) ==
    [ok |-> TRUE, vec |-> Append(v, b), rejected |-> b]

\* Faulty variant: the error carries the last stored byte, not the rejected one.
VecPush_WrongByte(v, b) ==
    IF Len(v) < Capacity
    THEN [ok |-> TRUE, vec |-> Append(v, b), rejected |-> b]
    ELSE [ok |-> FALSE, vec |-> v, rejected |-> v[Len(v)]]

VecPush(v, b) ==
    IF Len(v) < Capacity
    THEN [ok |-> TRUE, vec |-> Append(v, b), rejected |-> b]
    ELSE [ok |-> FALSE, vec |-> v, rejected |-> b]

(***************************************************************************)
(* The match of try_read_command (lines 126-130).                          *)
(***************************************************************************)
\* ASCII lower case, for the case-folding variant below.
Lower(w) == [i \in 1..Len(w) |-> IF 65 <= w[i] /\ w[i] <= 90 THEN w[i] + 32 ELSE w[i]]

\* Faulty variant: the match ignores case.
MatchCommand_CaseFolding(word) ==
    IF Lower(word) = MAGNETOMETER THEN [ok |-> TRUE, cmd |-> "Magnetometer"]
    ELSE IF Lower(word) = ACCELEROMETER THEN [ok |-> TRUE, cmd |-> "Accelerometer"]
    ELSE [ok |-> FALSE, cmd |-> "none"]

MatchCommand(word) ==
    IF word = MAGNETOMETER THEN [ok |-> TRUE, cmd |-> "Magnetometer"]
    ELSE IF word = ACCELEROMETER THEN [ok |-> TRUE, cmd |-> "Accelerometer"]
    ELSE [ok |-> FALSE, cmd |-> "none"]

(***************************************************************************)
(* The response lines of main (lines 183-188 and 199-204).                 *)
(***************************************************************************)
MagLine(d) ==
    MAG_LABEL \o FmtInt(d[1]) \o SEP_Y \o FmtInt(d[2]) \o SEP_Z \o FmtInt(d[3])
    \o CRLF

AccelLine(d) ==
    ACCEL_LABEL \o FmtInt(d[1]) \o SEP_Y \o FmtInt(d[2]) \o SEP_Z
    \o FmtInt(d[3]) \o CRLF

(***************************************************************************)
(* The environment: what the operator types, what the sensor measures.     *)
(***************************************************************************)
\* n bytes, each one more than the one before it, from s.
Ramp(n, s) == [i \in 1..n |-> (s + (i - 1)) % 256]

\* 'a' (ASCII text) and 0xC8 (bytes that are not UTF-8)
RampStarts == {97, 200}

FixedLines ==
    { MAGNETOMETER,
      ACCELEROMETER,
      << >>,
      << 77, 97, 103, 110, 101, 116, 111, 109, 101, 116, 101, 114 >>, \* "Magnetometer"
      << 109, 97, 103 >>,                                             \* "mag"
      << 102, 111, 111 >>,                                            \* "foo"
      << 32, 109, 97, 103, 110, 101, 116, 111, 109, 101, 116, 101, 114 >>, \* " magnetometer"
      << 195, 169 >>,                                                 \* e acute
      << 102, 195 >>,                                                 \* 'f', then a cut sequence
      << 226, 130, 40 >>,                                             \* bad third byte
      << 255 >> }

\* Over-long lines whose tail, past the rejected byte, is a command word.
TailLines ==
    { Ramp(Capacity + 1, 97) \o w : w \in {MAGNETOMETER, ACCELEROMETER} }

Lines ==
    FixedLines \cup TailLines
    \cup { Ramp(n, s) : n \in 1..MaxLineLen, s \in RampStarts }

\* Sensor samples (x, y, z).
Samples == { << 10, -20, 30 >>, << 0, 0, 0 >>, << -1234, 5, 987 >> }

NoData == << >>

(***************************************************************************)
(* 05-led-roulette: State (lines 15-72).  A state is one of the four       *)
(* variants with its u16 coordinate; the image buffer is [[u8; 5]; 5],     *)
(* indexed from 0 as in the source.                                        *)
(***************************************************************************)
\* const STATE_TIME: u32 = 50
STATE_TIME == 50

\* col: u16, row: u16
U16 == 65536

Row1GoingRight(col) == [tag |-> "Row1GoingRight", col |-> col]

Col5GoingDown(row) == [tag |-> "Col5GoingDown", row |-> row]

Row5GoingLeft(col) == [tag |-> "Row5GoingLeft", col |-> col]

Col1GoingUp(row) == [tag |-> "Col1GoingUp", row |-> row]

\* fn start() -> State
StateStart == Row1GoingRight(1)

\* The arm of next()'s match that a state takes; 9 is the `_` arm.
NextArm(s) ==
    CASE s.tag = "Row1GoingRight" /\ s.col = 5 -> 1
      [] s.tag = "Row1GoingRight" /\ s.col # 5 -> 2
      [] s.tag = "Col5GoingDown" /\ s.row = 5 -> 3
      [] s.tag = "Col5GoingDown" /\ s.row # 5 -> 4
      [] s.tag = "Row5GoingLeft" /\ s.col = 1 -> 5
      [] s.tag = "Row5GoingLeft" /\ s.col # 1 -> 6
      [] s.tag = "Col1GoingUp" /\ s.row = 1 -> 7
      [] s.tag = "Col1GoingUp" /\ s.row # 1 -> 8
      [] OTHER -> 9

\* col + 1, row + 1, col - 1, row - 1 in next() leave the range of u16: a
\* build with overflow checks panics, a build without them wraps.
NextOverflows(s) ==
    \/ NextArm(s) = 2 /\ s.col + 1 >= U16
    \/ NextArm(s) = 4 /\ s.row + 1 >= U16
    \/ NextArm(s) = 6 /\ s.col - 1 < 0
    \/ NextArm(s) = 8 /\ s.row - 1 < 0

\* fn next(&self) -> State
\* Faulty variant: the top row turns one column late.
StateNext_LateTurn(s) ==
    CASE NextArm(s) = 1 -> Row1GoingRight(6)
      [] NextArm(s) = 2 /\ s.col = 6 -> Col5GoingDown(2)
      [] NextArm(s) = 2 /\ s.col # 6 -> Row1GoingRight((s.col + 1) % U16)
      [] NextArm(s) = 3 -> Row5GoingLeft(4)
      [] NextArm(s) = 4 -> Col5GoingDown((s.row + 1) % U16)
      [] NextArm(s) = 5 -> Col1GoingUp(4)
      [] NextArm(s) = 6 -> Row5GoingLeft((s.col - 1) % U16)
      [] NextArm(s) = 7 -> Row1GoingRight(2)
      [] NextArm(s) = 8 -> Col1GoingUp((s.row - 1) % U16)
      [] OTHER -> StateStart

\* Faulty variant: every turn begins at the corner cell, which the state
\* before has lit already.
StateNext_CornerTwice(s) ==
    CASE NextArm(s) = 1 -> Col5GoingDown(1)
      [] NextArm(s) = 2 -> Row1GoingRight((s.col + 1) % U16)
      [] NextArm(s) = 3 -> Row5GoingLeft(5)
      [] NextArm(s) = 4 -> Col5GoingDown((s.row + 1) % U16)
      [] NextArm(s) = 5 -> Col1GoingUp(5)
      [] NextArm(s) = 6 -> Row5GoingLeft((s.col - 1) % U16)
      [] NextArm(s) = 7 -> Row1GoingRight(1)
      [] NextArm(s) = 8 -> Col1GoingUp((s.row - 1) % U16)
      [] OTHER -> StateStart

StateNext(s) ==
    CASE NextArm(s) = 1 -> Col5GoingDown(2)
      [] NextArm(s) = 2 -> Row1GoingRight((s.col + 1) % U16)
      [] NextArm(s) = 3 -> Row5GoingLeft(4)
      [] NextArm(s) = 4 -> Col5GoingDown((s.row + 1) % U16)
      [] NextArm(s) = 5 -> Col1GoingUp(4)
      [] NextArm(s) = 6 -> Row5GoingLeft((s.col - 1) % U16)
      [] NextArm(s) = 7 -> Row1GoingRight(2)
      [] NextArm(s) = 8 -> Col1GoingUp((s.row - 1) % U16)
      [] OTHER -> StateStart

\* rprintln! in the `_` arm of next()
NextPrints(s) ==
    IF NextArm(s) = 9
    THEN << "unexpected state encountered, resetting" >>
    ELSE << >>

\* let mut image_buffer = [[0; 5]; 5]
Blank == [r \in 0..4 |-> [c \in 0..4 |-> 0]]

\* The arm of assign()'s match that a state takes; 5 is the `_` arm.
AssignArm(s) ==
    CASE s.tag = "Row1GoingRight" /\ 1 <= s.col /\ s.col <= 5 -> 1
      [] s.tag = "Col5GoingDown" /\ 1 <= s.row /\ s.row <= 5 -> 2
      [] s.tag = "Row5GoingLeft" /\ 1 <= s.col /\ s.col <= 5 -> 3
      [] s.tag = "Col1GoingUp" /\ 1 <= s.row /\ s.row <= 5 -> 4
      [] OTHER -> 5

\* fn assign(&self, image_buffer: &mut [[u8; 5]; 5], val: u8)
StateAssign(s, image, val) ==
    CASE AssignArm(s) = 1 -> [image EXCEPT ![0][s.col - 1] = val]
      [] AssignArm(s) = 2 -> [image EXCEPT ![s.row - 1][4] = val]
      [] AssignArm(s) = 3 -> [image EXCEPT ![4][s.col - 1] = val]
      [] AssignArm(s) = 4 -> [image EXCEPT ![s.row - 1][0] = val]
      [] OTHER -> Blank

\* rprintln! in the `_` arm of assign()
AssignPrints(s) ==
    IF AssignArm(s) = 5
    THEN << "unexpected state encountered, clearing all" >>
    ELSE << >>

\* fn set(&self, image_buffer)
StateSet(s, image) == StateAssign(s, image, 1)

\* fn reset(&self, image_buffer)
\* Faulty variant: the cell of the state that ends stays lit.
StateReset_Keeps(s, image) == image

StateReset(s, image) == StateAssign(s, image, 0)

(***************************************************************************)
(* State.                                                                  *)
(***************************************************************************)
VARIABLES
    pc,       \* the program's position
    rx,       \* bytes the operator has typed and the program has not read
    buffer,   \* read_command's Vec<u8, 16>
    byte,     \* try_fill_buffer_with_echo's `byte`
    fillErr,  \* the FillBufferError try_fill_buffer_with_echo returned
    err,      \* the Error try_read_command returned
    cmd,      \* the Command read_command returned
    data,     \* the sample main read
    log,      \* transport and sensor calls since the read attempt began
    faulty,   \* whether the transport and the sensor may fail in this run
    line,     \* the line the operator typed last
    seen,     \* since that line: the diagnostics shown, the commands dispatched
    state,         \* 05-led-roulette: main's `state`
    image_buffer,  \* 05-led-roulette: main's `image_buffer`
    rtt,           \* 05-led-roulette: the messages printed with rprintln!
    frames         \* 05-led-roulette: the last MaxFrames frames shown

\* The variables of 05-led-roulette; the other programs leave them alone.
led == << state, image_buffer, rtt, frames >>

\* The variables of the serial programs; 05-led-roulette leaves them alone.
serial ==
    << rx, buffer, byte, fillErr, err, cmd, data, log, faulty, line, seen >>

vars ==
    << pc, rx, buffer, byte, fillErr, err, cmd, data, log, faulty, line, seen,
       state, image_buffer, rtt, frames >>

Event(op, d, ok) == [op |-> op, data |-> d, ok |-> ok]

\* The outcomes a fallible call may have in this run.
Outcomes == IF faulty THEN BOOLEAN ELSE {TRUE}

Init ==
    /\ pc = "main"
    /\ rx = << >>
    /\ buffer = << >>
    /\ byte = 0
    /\ fillErr = NoError
    /\ err = NoError
    /\ cmd = "none"
    /\ data = NoData
    /\ log = << >>
    /\ faulty \in BOOLEAN
    /\ line = << >>
    /\ seen = {}
    /\ state = StateStart
    /\ image_buffer = Blank
    /\ rtt = << >>
    /\ frames = << >>

(***************************************************************************)
(* The operator types a line and ends it with a carriage return, when the  *)
(* program waits for a byte and none is pending.                           *)
(***************************************************************************)
Type ==
    /\ pc = "fill_read"
    /\ rx = << >>
    /\ \E l \in Lines :
          /\ line' = l
          /\ rx' = l \o << CR >>
    /\ seen' = {}
    /\ UNCHANGED << pc, buffer, byte, fillErr, err, cmd, data, log, faulty, led >>

(***************************************************************************)
(* How a failure leaves the program.                                       *)
(***************************************************************************)
\* `?` in read_command (lines 139, 142): read_command returns the fmt::Error
\* and main's read_command(..).unwrap() (line 176) panics.
\* Faulty variant: a failed write is tried again.
Propagate_Retry(ok, next) == IF ok THEN next ELSE "prompt"

Propagate(ok, next) == IF ok THEN next ELSE "panicked"

\* .unwrap() in main's dispatch arms and on the final flush (lines 180-210).
\* Faulty variant: a failure in the dispatch arm goes to the error report.
Unwrap_Report(ok, next) == IF ok THEN next ELSE "report"

Unwrap(ok, next) == IF ok THEN next ELSE "panicked"

(***************************************************************************)
(* read_command (lines 133-145).                                           *)
(***************************************************************************)
\* main calls read_command: let mut buffer = Vec::new()
CallReadCommand ==
    /\ pc = "main"
    /\ buffer' = << >>
    /\ pc' = "prompt"
    /\ UNCHANGED << rx, byte, fillErr, err, cmd, data, log, faulty, line, seen, led >>

\* writeln!(serial, "Available commands: ...\r")?
WritePrompt ==
    /\ pc = "prompt"
    /\ \E ok \in Outcomes :
          /\ log' = Append(log, Event("writeln", PROMPT, ok))
          /\ pc' = Propagate(ok, "fill_clear")
    /\ UNCHANGED << rx, buffer, byte, fillErr, err, cmd, data, faulty, line, seen, led >>

\* Err(err) => writeln!(serial, "*** error ***\r\n{}\r", err)?
\* Faulty variant: after the report the loop reads without prompting.
Report_NoPrompt ==
    /\ pc = "report"
    /\ \E ok \in Outcomes :
          /\ log' = Append(log, Event("writeln", ErrorReport(err), ok))
          /\ pc' = Propagate(ok, "fill_clear")
          /\ seen' = IF ok THEN seen \cup {err.tag} ELSE seen
    /\ err' = NoError
    /\ UNCHANGED << rx, buffer, byte, fillErr, cmd, data, faulty, line, led >>

Report ==
    /\ pc = "report"
    /\ \E ok \in Outcomes :
          /\ log' = Append(log, Event("writeln", ErrorReport(err), ok))
          /\ pc' = Propagate(ok, "prompt")
          /\ seen' = IF ok THEN seen \cup {err.tag} ELSE seen
    /\ err' = NoError
    /\ UNCHANGED << rx, buffer, byte, fillErr, cmd, data, faulty, line, led >>

(***************************************************************************)
(* try_fill_buffer_with_echo (lines 103-118).  The log starts afresh with  *)
(* each read attempt: it is the observer's record of one cycle.            *)
(***************************************************************************)
\* buffer.clear()
\* Faulty variant: the buffer is not cleared when an attempt begins.
FillClear_Keeps ==
    /\ pc = "fill_clear"
    /\ log' = << >>
    /\ pc' = "fill_read"
    /\ UNCHANGED << rx, buffer, byte, fillErr, err, cmd, data, faulty, line, seen, led >>

FillClear ==
    /\ pc = "fill_clear"
    /\ buffer' = << >>
    /\ log' = << >>
    /\ pc' = "fill_read"
    /\ UNCHANGED << rx, byte, fillErr, err, cmd, data, faulty, line, seen, led >>

\* let byte = nb::block!(serial.read())?; if byte == b'\r'
FillRead ==
    /\ pc = "fill_read"
    /\ \/ /\ rx # << >>
          /\ byte' = Head(rx)
          /\ rx' = Tail(rx)
          /\ log' = Append(log, Event("read", << Head(rx) >>, TRUE))
          /\ pc' = IF Head(rx) = CR THEN "fill_newline" ELSE "fill_write"
          /\ UNCHANGED fillErr
       \/ /\ faulty
          /\ \E e \in UarteErrors : fillErr' = FillFromUarte(e)
          /\ log' = Append(log, Event("read", << >>, FALSE))
          /\ pc' = "fill_failed"
          /\ UNCHANGED << rx, byte >>
    /\ UNCHANGED << buffer, err, cmd, data, faulty, line, seen, led >>

\* writeln!(serial, "\r")?; return Ok(())
FillNewline ==
    /\ pc = "fill_newline"
    /\ \E ok \in Outcomes :
          /\ log' = Append(log, Event("writeln", CRLF, ok))
          /\ pc' = IF ok THEN "parse" ELSE "fill_failed"
          /\ fillErr' = IF ok THEN fillErr ELSE FillFromFmt
    /\ UNCHANGED << rx, buffer, byte, err, cmd, data, faulty, line, seen, led >>

\* nb::block!(embedded_hal::serial::Write::write(serial, byte))?
\* Faulty variant: the echo is written and not flushed.
FillWrite_NoFlush ==
    /\ pc = "fill_write"
    /\ \/ /\ log' = Append(log, Event("write", << byte >>, TRUE))
          /\ pc' = "fill_push"
          /\ UNCHANGED fillErr
       \/ /\ faulty
          /\ \E e \in UarteErrors : fillErr' = FillFromUarte(e)
          /\ log' = Append(log, Event("write", << byte >>, FALSE))
          /\ pc' = "fill_failed"
    /\ UNCHANGED << rx, buffer, byte, err, cmd, data, faulty, line, seen, led >>

\* Faulty variant: the byte goes to the buffer without having been echoed.
FillWrite_Silent ==
    /\ pc = "fill_write"
    /\ pc' = "fill_push"
    /\ UNCHANGED << rx, buffer, byte, fillErr, err, cmd, data, log, faulty, line, seen, led >>

FillWrite ==
    /\ pc = "fill_write"
    /\ \/ /\ log' = Append(log, Event("write", << byte >>, TRUE))
          /\ pc' = "fill_flush"
          /\ UNCHANGED fillErr
       \/ /\ faulty
          /\ \E e \in UarteErrors : fillErr' = FillFromUarte(e)
          /\ log' = Append(log, Event("write", << byte >>, FALSE))
          /\ pc' = "fill_failed"
    /\ UNCHANGED << rx, buffer, byte, err, cmd, data, faulty, line, seen, led >>

\* nb::block!(embedded_hal::serial::Write::flush(serial))?
FillFlush ==
    /\ pc = "fill_flush"
    /\ \/ /\ log' = Append(log, Event("flush", << >>, TRUE))
          /\ pc' = "fill_push"
          /\ UNCHANGED fillErr
       \/ /\ faulty
          /\ \E e \in UarteErrors : fillErr' = FillFromUarte(e)
          /\ log' = Append(log, Event("flush", << >>, FALSE))
          /\ pc' = "fill_failed"
    /\ UNCHANGED << rx, buffer, byte, err, cmd, data, faulty, line, seen, led >>

\* buffer.push(byte)?
\* Faulty variant: on overflow the rest of the line is read and thrown away.
FillPush_Drains ==
    /\ pc = "fill_push"
    /\ LET r == VecPush(buffer, byte)
       IN  /\ buffer' = r.vec
           /\ pc' = IF r.ok THEN "fill_read" ELSE "fill_failed"
           /\ fillErr' = IF r.ok THEN fillErr ELSE FillFromU8(r.rejected)
           /\ rx' = IF r.ok THEN rx ELSE << >>
    /\ UNCHANGED << byte, err, cmd, data, log, faulty, line, seen, led >>

FillPush ==
    /\ pc = "fill_push"
    /\ LET r == VecPush(buffer, byte)
       IN  /\ buffer' = r.vec
           /\ pc' = IF r.ok THEN "fill_read" ELSE "fill_failed"
           /\ fillErr' = IF r.ok THEN fillErr ELSE FillFromU8(r.rejected)
    /\ UNCHANGED << rx, byte, err, cmd, data, log, faulty, line, seen, led >>

(***************************************************************************)
(* try_read_command (lines 120-131).                                       *)
(***************************************************************************)
\* try_fill_buffer_with_echo(serial, buffer)? on an Err
FillFailed ==
    /\ pc = "fill_failed"
    /\ err' = ErrorFromFill(fillErr)
    /\ fillErr' = NoError
    /\ pc' = "report"
    /\ UNCHANGED << rx, buffer, byte, cmd, data, log, faulty, line, seen, led >>

\* let word = core::str::from_utf8(buffer)?; match word { ... }
Parse ==
    /\ pc = "parse"
    /\ LET u == FromUtf8(buffer)
           m == MatchCommand(buffer)
       IN  IF ~u.ok
           THEN /\ err' = ErrorFromUtf8(u)
                /\ pc' = "report"
                /\ UNCHANGED cmd
           ELSE IF m.ok
           THEN /\ cmd' = m.cmd
                /\ pc' = "dispatch"
                /\ UNCHANGED err
           ELSE /\ err' = Unrecognized(buffer)
                /\ pc' = "report"
                /\ UNCHANGED cmd
    /\ UNCHANGED << rx, buffer, byte, fillErr, data, log, faulty, line, seen, led >>

(***************************************************************************)
(* main's loop (lines 175-211).                                            *)
(***************************************************************************)
\* match read_command(&mut uarte).unwrap() { ... }
\* Faulty variant: the two arms are swapped.
DispatchTarget_Crossed(c) ==
    IF c = "Magnetometer" THEN "accel_status" ELSE "mag_status"

DispatchTarget(c) ==
    IF c = "Magnetometer" THEN "mag_status" ELSE "accel_status"

Dispatch ==
    /\ pc = "dispatch"
    /\ pc' = DispatchTarget(cmd)
    /\ seen' = seen \cup {cmd}
    /\ UNCHANGED << rx, buffer, byte, fillErr, err, cmd, data, log, faulty, line, led >>

\* Stale status polls in the log.
StaleCount(l) ==
    Cardinality({ i \in 1..Len(l) :
        l[i].op \in {"mag_status", "accel_status"} /\ l[i].data = << 0 >> })

\* if sensor.<group>_status().unwrap().xyz_new_data { ... } in the loop
\* Faulty variant: the sample is read whatever the status says.
AfterStatus_Eager(fresh, here, next) == next

\* Faulty variant: the loop gives up after MaxStale stale polls.
AfterStatus_GivesUp(fresh, here, next) ==
    IF fresh THEN next
    ELSE IF StaleCount(log) >= MaxStale THEN "main_flush" ELSE here

AfterStatus(fresh, here, next) == IF fresh THEN next ELSE here

SensorStatus(here, next) ==
    /\ pc = here
    /\ \/ \E fresh \in BOOLEAN :
             /\ log' = IF fresh \/ StaleCount(log) < MaxStale
                       THEN Append(log, Event(here, << IF fresh THEN 1 ELSE 0 >>, TRUE))
                       ELSE log
             /\ pc' = AfterStatus(fresh, here, next)
       \/ /\ faulty
          /\ log' = Append(log, Event(here, << >>, FALSE))
          /\ pc' = Unwrap(FALSE, next)
    /\ UNCHANGED << rx, buffer, byte, fillErr, err, cmd, data, faulty, line, seen, led >>

\* let data = sensor.<group>_data().unwrap()
SensorData(here, next) ==
    /\ pc = here
    /\ \/ \E s \in Samples :
             /\ data' = s
             /\ log' = Append(log, Event(here, s, TRUE))
             /\ pc' = Unwrap(TRUE, next)
       \/ /\ faulty
          /\ log' = Append(log, Event(here, << >>, FALSE))
          /\ pc' = Unwrap(FALSE, next)
          /\ UNCHANGED data
    /\ UNCHANGED << rx, buffer, byte, fillErr, err, cmd, faulty, line, seen, led >>

\* writeln!(uarte, "<label>: x {} y {} z {}\r", data.x, data.y, data.z).unwrap()
SensorWrite(here, text) ==
    /\ pc = here
    /\ \E ok \in Outcomes :
          /\ log' = Append(log, Event("writeln", text, ok))
          /\ pc' = Unwrap(ok, "main_flush")
    /\ data' = NoData
    /\ UNCHANGED << rx, buffer, byte, fillErr, err, cmd, faulty, line, seen, led >>

MagStatus == SensorStatus("mag_status", "mag_data")

MagData == SensorData("mag_data", "mag_write")

MagWrite == SensorWrite("mag_write", MagLine(data))

AccelStatus == SensorStatus("accel_status", "accel_data")

AccelData == SensorData("accel_data", "accel_write")

AccelWrite == SensorWrite("accel_write", AccelLine(data))

\* nb::block!(embedded_hal::serial::Write::flush(&mut uarte)).unwrap()
\* Faulty variant: the loop goes round without the flush.
MainFlush_Skipped ==
    /\ pc = "main_flush"
    /\ pc' = "main"
    /\ cmd' = "none"
    /\ UNCHANGED << rx, buffer, byte, fillErr, err, data, log, faulty, line, seen, led >>

MainFlush ==
    /\ pc = "main_flush"
    /\ \E ok \in Outcomes :
          /\ log' = Append(log, Event("flush", << >>, ok))
          /\ pc' = Unwrap(ok, "main")
    /\ cmd' = "none"
    /\ UNCHANGED << rx, buffer, byte, fillErr, err, data, faulty, line, seen, led >>

(***************************************************************************)
(* Specifications.                                                         *)
(***************************************************************************)
Program ==
    \/ CallReadCommand
    \/ WritePrompt
    \/ FillClear
    \/ FillRead
    \/ FillNewline
    \/ FillWrite
    \/ FillFlush
    \/ FillPush
    \/ FillFailed
    \/ Parse
    \/ Report
    \/ Dispatch
    \/ MagStatus
    \/ MagData
    \/ MagWrite
    \/ AccelStatus
    \/ AccelData
    \/ AccelWrite
    \/ MainFlush

Next == Type \/ Program

Spec == Init /\ [][Next]_vars

\* A status poll that finds fresh data.
FreshPoll ==
    /\ MagStatus \/ AccelStatus
    /\ pc' \in {"mag_data", "accel_data"}

\* The program is the only thread of control: it takes its next step whenever
\* it has one.  The sensor runs at 50 Hz (lines 170-173): a poll loop that
\* keeps asking is eventually told that data is fresh.
LiveSpec == Spec /\ WF_vars(Program) /\ SF_vars(FreshPoll)

(***************************************************************************)
(* Reading the log.                                                        *)
(***************************************************************************)
Last(l) == l[Len(l)]

AllOk(l) == \A i \in 1..Len(l) : l[i].ok

IsRead(e) == e.op = "read" /\ e.ok

\* The bytes the attempt has read, in order.
RECURSIVE ReadBytes(_)
ReadBytes(l) ==
    IF l = << >> THEN << >>
    ELSE IF IsRead(Last(l))
         THEN ReadBytes(SubSeq(l, 1, Len(l) - 1)) \o Last(l).data
         ELSE ReadBytes(SubSeq(l, 1, Len(l) - 1))

\* Those of them that are not the terminator.
WordBytes(l) == SelectSeq(ReadBytes(l), LAMBDA b : b # CR)

NoCR(w) == \A i \in 1..Len(w) : w[i] # CR

IsPrefix(p, w) == Len(p) <= Len(w) /\ SubSeq(w, 1, Len(p)) = p

SensorOps == {"mag_status", "mag_data", "accel_status", "accel_data"}

\* The collector returned Ok: its newline echo is in the log.
Collected(l) == \E i \in 1..Len(l) : l[i] = Event("writeln", CRLF, TRUE)

(***************************************************************************)
(* C1.  Echo-Collector, command variant: when the collector returns Ok,    *)
(* the buffer is exactly the bytes read before the terminator, in arrival  *)
(* order, at most 16 of them, and the terminator is not stored; a word of  *)
(* at most 16 bytes never overflows; and every read after the first comes  *)
(* directly after the read, the write and the flush of the byte before it, *)
(* all three successful.                                                   *)
(***************************************************************************)
C1_EchoCollector ==
    /\ pc = "parse" =>
          LET r == ReadBytes(log)
          IN  /\ Len(r) >= 1
              /\ r[Len(r)] = CR
              /\ buffer = SubSeq(r, 1, Len(r) - 1)
              /\ NoCR(buffer)
              /\ Len(buffer) <= Capacity
    /\ (pc = "fill_failed" /\ AllOk(log)) => Len(WordBytes(log)) > Capacity
    /\ \A i \in 2..Len(log) :
          log[i].op = "read" =>
             /\ i >= 4
             /\ log[i - 1] = Event("flush", << >>, TRUE)
             /\ log[i - 2].op = "write" /\ log[i - 2].ok
             /\ IsRead(log[i - 3])
             /\ log[i - 2].data = log[i - 3].data
             /\ log[i - 3].data # << CR >>

C1_Witness ==
    /\ pc = "parse"
    /\ buffer = Ramp(Capacity, 97)
    /\ line = Ramp(Capacity, 97)
    /\ Len(log) = 3 * Capacity + 2

C3_ExactMatch ==
    (pc \in {"dispatch", "report"} /\ Len(log) > 0
        /\ Last(log) = Event("writeln", CRLF, TRUE)
        /\ FromUtf8(WordBytes(log)).ok) =>
       LET w == WordBytes(log)
       IN  IF w = MAGNETOMETER
           THEN pc = "dispatch" /\ cmd = "Magnetometer" /\ err = NoError
           ELSE IF w = ACCELEROMETER
           THEN pc = "dispatch" /\ cmd = "Accelerometer" /\ err = NoError
           ELSE pc = "report" /\ cmd = "none" /\ err = Unrecognized(w)

\* "Magnetometer", "mag" and the empty text are each turned down as typed.
C3_Witness ==
    /\ pc = "report"
    /\ err.tag = "Unrecognized"
    /\ err.text = << 77, 97, 103, 110, 101, 116, 111, 109, 101, 116, 101, 114 >>
    /\ line = err.text

(***************************************************************************)
(* C4.  No cross-wiring: every sensor call in the log is of the axis-group *)
(* named by the word the attempt collected, the response line carries that *)
(* group's label and follows that group's data read, and no sensor call    *)
(* is made unless the collected word is a command.                         *)
(***************************************************************************)
MagOps == {"mag_status", "mag_data"}

AccelOps == {"accel_status", "accel_data"}

IsMagLine(e) == e.op = "writeln" /\ IsPrefix(MAG_LABEL, e.data)

IsAccelLine(e) == e.op = "writeln" /\ IsPrefix(ACCEL_LABEL, e.data)

C4_NoCrossWiring ==
    LET w == WordBytes(log)
    IN  /\ \A i \in 1..Len(log) :
              /\ (log[i].op \in MagOps \/ IsMagLine(log[i])) =>
                    Collected(log) /\ w = MAGNETOMETER
              /\ (log[i].op \in AccelOps \/ IsAccelLine(log[i])) =>
                    Collected(log) /\ w = ACCELEROMETER
              /\ IsMagLine(log[i]) => i > 1 /\ log[i - 1].op = "mag_data"
              /\ IsAccelLine(log[i]) => i > 1 /\ log[i - 1].op = "accel_data"
              /\ (i > 1 /\ log[i - 1].op = "mag_data" /\ log[i - 1].ok) =>
                    IsMagLine(log[i])
              /\ (i > 1 /\ log[i - 1].op = "accel_data" /\ log[i - 1].ok) =>
                    IsAccelLine(log[i])
        /\ pc \in {"mag_status", "mag_data", "mag_write"} =>
              cmd = "Magnetometer" /\ w = MAGNETOMETER
        /\ pc \in {"accel_status", "accel_data", "accel_write"} =>
              cmd = "Accelerometer" /\ w = ACCELEROMETER

C4_Witness ==
    /\ pc = "main_flush"
    /\ line = ACCELEROMETER
    /\ \E i \in 2..Len(log) :
          /\ log[i - 1].op = "accel_data"
          /\ IsAccelLine(log[i])
          /\ log[i].ok

(***************************************************************************)
(* C5.  Sensor Poll-and-Report: a sample is read only directly after a     *)
(* status poll of its group that returned fresh; a stale poll is followed  *)
(* by another poll; at most one sample is read and one response line       *)
(* written per cycle; the line is the label, then x, y, z of that sample   *)
(* in decimal, then "\r\n"; and when the next prompt has been written the  *)
(* log ends: fresh poll, sample, response line, flush, prompt.             *)
(***************************************************************************)
DataOf(op) == IF op = "mag_status" THEN "mag_data" ELSE "accel_data"

\* "Magnetic field (nT): x 10 y -20 z 30\r\n"
SCENARIO_A_LINE ==
    << 77, 97, 103, 110, 101, 116, 105, 99, 32, 102, 105, 101, 108, 100, 32,
       40, 110, 84, 41, 58, 32, 120, 32, 49, 48, 32, 121, 32, 45, 50, 48, 32,
       122, 32, 51, 48, 13, 10 >>

C5_PollThenReport ==
    /\ \A i \in 1..Len(log) :
          /\ log[i].op = "mag_data" =>
                i > 1 /\ log[i - 1] = Event("mag_status", << 1 >>, TRUE)
          /\ log[i].op = "accel_data" =>
                i > 1 /\ log[i - 1] = Event("accel_status", << 1 >>, TRUE)
          /\ (log[i].op \in {"mag_status", "accel_status"} /\ i < Len(log)) =>
                /\ log[i].ok
                /\ log[i + 1].op =
                      IF log[i].data = << 1 >> THEN DataOf(log[i].op)
                      ELSE log[i].op
          /\ (log[i].op \in {"mag_data", "accel_data"} /\ i < Len(log)) =>
                /\ log[i].ok
                /\ log[i + 1].op = "writeln"
                /\ log[i + 1].data =
                      (IF log[i].op = "mag_data" THEN MAG_LABEL ELSE ACCEL_LABEL)
                      \o FmtInt(log[i].data[1]) \o SEP_Y
                      \o FmtInt(log[i].data[2]) \o SEP_Z
                      \o FmtInt(log[i].data[3]) \o CRLF
          /\ (log[i] = Event("mag_data", << 10, -20, 30 >>, TRUE)
                /\ i < Len(log)) => log[i + 1].data = SCENARIO_A_LINE
    /\ Cardinality({ i \in 1..Len(log) :
          log[i].op \in {"mag_data", "accel_data"} }) <= 1
    /\ Cardinality({ i \in 1..Len(log) :
          IsMagLine(log[i]) \/ IsAccelLine(log[i]) }) <= 1
    /\ (pc = "fill_clear" /\ Collected(log)
          /\ WordBytes(log) \in {MAGNETOMETER, ACCELEROMETER}) =>
          LET n == Len(log)
          IN  /\ n >= 5
              /\ log[n] = Event("writeln", PROMPT, TRUE)
              /\ log[n - 1] = Event("flush", << >>, TRUE)
              /\ (IsMagLine(log[n - 2]) \/ IsAccelLine(log[n - 2]))
              /\ log[n - 2].ok
              /\ log[n - 3].op \in {"mag_data", "accel_data"}
              /\ log[n - 4].data = << 1 >>

\* Scenario A: fresh on the first poll, sample (10, -20, 30).
C5_Witness ==
    /\ pc = "fill_clear"
    /\ line = MAGNETOMETER
    /\ StaleCount(log) = 0
    /\ \E i \in 1..Len(log) : log[i] = Event("writeln", SCENARIO_A_LINE, TRUE)

(***************************************************************************)
(* C6.  A failed read attempt (a transport failure while reading or        *)
(* echoing, overflow, a UTF-8 failure, an unrecognized word) is reported:  *)
(* the next call after it is writeln of "*** error ***\r\n", the error's   *)
(* display text and "\r\n"; when that write succeeds the next call is the  *)
(* prompt's writeln, and when that succeeds a new attempt starts; no       *)
(* command is dispatched and no sensor call made for the failed attempt.   *)
(***************************************************************************)
EchoFailure(l, i) ==
    /\ ~l[i].ok
    /\ \/ l[i].op \in {"read", "write"}
       \/ l[i].op = "flush" /\ i > 1 /\ l[i - 1].op = "write"

\* The display texts the log of a failed attempt calls for (none: no failure).
ExpectedMessages(l) ==
    LET w == WordBytes(l)
        u == FromUtf8(w)
    IN  IF \E i \in 1..Len(l) : EchoFailure(l, i)
        THEN { MSG_UARTE \o UarteDebug(e) : e \in UarteErrors }
        ELSE IF \E i \in 1..Len(l) : l[i] = Event("writeln", CRLF, FALSE)
        THEN { MSG_WRITE \o FMT_ERROR_TEXT }
        ELSE IF ~Collected(l)
        THEN IF Len(w) = Capacity + 1 THEN { MSG_PUSH } ELSE {}
        ELSE IF ~u.ok
        THEN { MSG_UTF8 \o Utf8ErrorText(u.valid_up_to, u.error_len) }
        ELSE IF w \notin {MAGNETOMETER, ACCELEROMETER}
        THEN { MSG_UNRECOGNIZED \o w }
        ELSE {}

IsReportOf(e, l) ==
    /\ e.op = "writeln"
    /\ \E m \in ExpectedMessages(l) : e.data = ERROR_BANNER \o m \o CRLF

NoSensorCall(l) == \A i \in 1..Len(l) : l[i].op \notin SensorOps

\* "*** error ***\r\nunrecognized command: foo\r\n"
SCENARIO_C_REPORT ==
    << 42, 42, 42, 32, 101, 114, 114, 111, 114, 32, 42, 42, 42, 13, 10,
       117, 110, 114, 101, 99, 111, 103, 110, 105, 122, 101, 100, 32, 99, 111,
       109, 109, 97, 110, 100, 58, 32, 102, 111, 111, 13, 10 >>

C6_FailureReported ==
    LET n == Len(log)
        failed == ExpectedMessages(log) # {}
    IN  /\ pc \in {"fill_failed", "report"} =>
              failed /\ NoSensorCall(log) /\ cmd = "none"
        /\ pc = "report" => err # NoError /\ AllOk(SubSeq(log, 1, n - 1))
        /\ (failed /\ pc \notin {"fill_read", "fill_write", "fill_flush",
                                 "fill_push", "fill_newline", "parse"}) =>
              /\ pc \in {"fill_failed", "report", "prompt", "fill_clear",
                         "panicked"}
              /\ NoSensorCall(log)
              /\ cmd = "none"
        /\ (failed /\ pc = "prompt") =>
              /\ IsReportOf(log[n], log)
              /\ log[n].ok
              /\ \A i \in 1..(n - 1) : log[i].op # "writeln" \/ log[i].data = CRLF
        /\ (failed /\ pc = "fill_clear") =>
              /\ log[n] = Event("writeln", PROMPT, TRUE)
              /\ IsReportOf(log[n - 1], log)
              /\ log[n - 1].ok
        /\ (failed /\ pc = "panicked") =>
              /\ ~log[n].ok
              /\ \/ IsReportOf(log[n], log)
                 \/ log[n].data = PROMPT /\ IsReportOf(log[n - 1], log)
        /\ (pc = "prompt" /\ Collected(log)
              /\ WordBytes(log) = << 102, 111, 111 >>) =>
              log[n] = Event("writeln", SCENARIO_C_REPORT, TRUE)

\* Scenario C: "foo\r", the report, a fresh prompt, a new attempt.
C6_Witness ==
    /\ pc = "fill_clear"
    /\ Len(log) >= 2
    /\ log[Len(log) - 1] = Event("writeln", SCENARIO_C_REPORT, TRUE)
    /\ Last(log) = Event("writeln", PROMPT, TRUE)

(***************************************************************************)
(* C7.  Scenario B: in a run without transport failures, a line of 20      *)
(* bytes, none a terminator, then '\r': by the time the 17th byte has been *)
(* consumed and the loop has prompted again, the overflow diagnostic       *)
(* "command word too long" has been written; no command is dispatched      *)
(* while the line is consumed; the rest of the line is turned down too.    *)
(***************************************************************************)
\* "*** error ***\r\ncommand word too long\r\n"
SCENARIO_B_REPORT ==
    << 42, 42, 42, 32, 101, 114, 114, 111, 114, 32, 42, 42, 42, 13, 10,
       99, 111, 109, 109, 97, 110, 100, 32, 119, 111, 114, 100, 32, 116, 111,
       111, 32, 108, 111, 110, 103, 13, 10 >>

C7_ScenarioB ==
    (~faulty /\ Len(line) = 20 /\ NoCR(line)) =>
       /\ seen \cap {"Magnetometer", "Accelerometer"} = {}
       /\ cmd = "none"
       /\ pc \notin {"dispatch", "mag_status", "mag_data", "mag_write",
                     "accel_status", "accel_data", "accel_write", "main_flush"}
       /\ (Len(rx) < 4 \/ (Len(rx) = 4 /\ pc \in {"prompt", "fill_clear"})) =>
             "Push" \in seen
       /\ (Len(rx) = 4 /\ pc = "fill_clear") =>
             /\ Last(log) = Event("writeln", PROMPT, TRUE)
             /\ log[Len(log) - 1] = Event("writeln", SCENARIO_B_REPORT, TRUE)
       /\ (rx = << >> /\ pc = "fill_read" /\ log = << >>) =>
             /\ "Push" \in seen
             /\ seen \subseteq {"Push", "Unrecognized", "Utf8"}
             /\ Cardinality(seen) = 2

\* The 20 bytes 0xC8.. are not UTF-8: overflow first, then a UTF-8 failure.
C7_Witness ==
    /\ ~faulty
    /\ line = Ramp(20, 200)
    /\ rx = << >>
    /\ pc = "fill_read"
    /\ log = << >>
    /\ seen = {"Push", "Utf8"}

(***************************************************************************)
(* C8.  Recovery: a failed call is the last call of the log or is directly *)
(* followed by the error report; a failure of the read phase (reading or   *)
(* echoing a byte, the newline echo) leads to the report; every other      *)
(* failure (the prompt or the report write, a sensor status or sample      *)
(* read, the response write, the final flush) halts the program.           *)
(***************************************************************************)
ReadPhaseFailure(l, i) ==
    EchoFailure(l, i) \/ l[i] = Event("writeln", CRLF, FALSE)

IsMainFlush(l, i) == l[i].op = "flush" /\ i > 1 /\ l[i - 1].op = "writeln"

IsPromptOrReport(e) ==
    /\ e.op = "writeln"
    /\ e.data = PROMPT \/ IsPrefix(ERROR_BANNER, e.data)

C8_RecoveryPoint ==
    LET n == Len(log)
    IN  /\ \A i \in 1..(n - 1) :
              ~log[i].ok => ReadPhaseFailure(log, i) /\ IsReportOf(log[i + 1], log)
        /\ (n > 0 /\ ~log[n].ok) =>
              IF ReadPhaseFailure(log, n)
              THEN pc \in {"fill_failed", "report"}
              ELSE pc = "panicked"
        /\ pc = "panicked" =>
              /\ n > 0
              /\ ~log[n].ok
              /\ \/ IsPromptOrReport(log[n])
                 \/ log[n].op \in SensorOps
                 \/ IsMagLine(log[n]) \/ IsAccelLine(log[n])
                 \/ IsMainFlush(log, n)

C8_Witness ==
    /\ pc = "panicked"
    /\ Last(log) = Event("mag_data", << >>, FALSE)

\* The claim as stated: only a failed prompt or report write halts the loop.
C8_OnlyWriteFailureHalts ==
    pc = "panicked" => IsPromptOrReport(Last(log))

(***************************************************************************)
(* C9.  A failed write of the prompt or of the error text is the last call *)
(* the program makes: it is neither retried nor reported, the program has  *)
(* panicked, and a panicked program takes no step: it reads no byte (the   *)
(* pending ones stay), writes no prompt, calls no sensor operation.        *)
(***************************************************************************)
C9_WriteFailureHalts ==
    /\ \A i \in 1..Len(log) :
          (IsPromptOrReport(log[i]) /\ ~log[i].ok) =>
             i = Len(log) /\ pc = "panicked"
    /\ pc = "panicked" => ~ENABLED Next

\* The report of an overflow cannot be written: the rest of the line stays unread.
C9_Witness ==
    /\ pc = "panicked"
    /\ rx # << >>
    /\ Last(log) = Event("writeln", SCENARIO_B_REPORT, FALSE)

(***************************************************************************)
(* C10.  The cycle: in a run without failures the program never halts and  *)
(* always has a next step; a response line in the log is directly followed *)
(* by the flush and the flush by the prompt; and every dispatched command  *)
(* leads to the start of a new read attempt whose log ends: response line, *)
(* flush, prompt.                                                          *)
(***************************************************************************)
IsResponse(e) == (IsMagLine(e) \/ IsAccelLine(e)) /\ e.ok

ResponseFlushPrompt ==
    /\ pc = "fill_clear"
    /\ Len(log) >= 3
    /\ Last(log) = Event("writeln", PROMPT, TRUE)
    /\ log[Len(log) - 1] = Event("flush", << >>, TRUE)
    /\ IsResponse(log[Len(log) - 2])

C10_UnboundedCycle ==
    /\ [](~faulty =>
            /\ pc # "panicked"
            /\ ENABLED Next
            /\ \A i \in 1..Len(log) :
                  IsResponse(log[i]) =>
                     /\ i < Len(log) => log[i + 1] = Event("flush", << >>, TRUE)
                     /\ i + 1 < Len(log) =>
                           log[i + 2] = Event("writeln", PROMPT, TRUE)
                     /\ i + 2 >= Len(log)
                     /\ i = Len(log) => pc = "main_flush"
                     /\ i + 1 = Len(log) => pc \in {"main", "prompt"}
                     /\ i + 2 = Len(log) => pc = "fill_clear")
    /\ (~faulty /\ pc = "dispatch") ~> ResponseFlushPrompt

C10_Witness ==
    /\ ~faulty
    /\ ResponseFlushPrompt
    /\ StaleCount(log) = MaxStale

(***************************************************************************)
(* C11.  No timeout and no retry bound in the poll loop: a step taken in   *)
(* a polling state is a stale poll, a fresh poll or a failed poll.  A      *)
(* stale poll leaves the program in the same polling state, reads no       *)
(* sample, writes nothing to the transport and consumes no input, however  *)
(* many stale polls came before; only a fresh poll moves on to the read of *)
(* the sample, and only a failed poll halts.  So while every poll is       *)
(* stale the program never leaves the polling state.                       *)
(***************************************************************************)
PollStates == {"mag_status", "accel_status"}

StalePollStep ==
    /\ pc' = pc
    /\ log' \in {log, Append(log, Event(pc, << 0 >>, TRUE))}
    /\ UNCHANGED << rx, buffer, byte, fillErr, err, cmd, data, line, seen >>

FreshPollStep ==
    /\ pc' = DataOf(pc)
    /\ log' = Append(log, Event(pc, << 1 >>, TRUE))
    /\ UNCHANGED data

FailedPollStep ==
    /\ pc' = "panicked"
    /\ log' = Append(log, Event(pc, << >>, FALSE))
    /\ UNCHANGED data

C11_NoTimeout ==
    [][(pc \in PollStates) =>
          (StalePollStep \/ FreshPollStep \/ FailedPollStep)]_vars

\* The program still polls after MaxStale stale polls, with no sample read
\* and no response written.
C11_Witness ==
    /\ pc \in PollStates
    /\ StaleCount(log) >= 2
    /\ Last(log).op = pc
    /\ Last(log).data = << 0 >>
    /\ data = NoData
    /\ \A i \in 1..Len(log) : ~IsResponse(log[i])
    /\ ENABLED (SensorStatus(pc, DataOf(pc)) /\ pc' = pc)

(***************************************************************************)
(* C12.  The line buffer: its length is always within 0..Capacity; every   *)
(* read attempt begins by emptying it, so during an attempt it holds only  *)
(* bytes read in that attempt (a prefix of them, in order), whatever the   *)
(* attempt before left in it; and it changes only in the collector's clear *)
(* and push steps, or when read_command constructs it empty (line 134).    *)
(***************************************************************************)
InAttempt ==
    pc \in {"fill_read", "fill_newline", "fill_write", "fill_flush",
            "fill_push", "fill_failed", "parse"}

C12_LineBuffer ==
    /\ [](/\ Len(buffer) \in 0..Capacity
          /\ InAttempt => IsPrefix(buffer, WordBytes(log))
          /\ (pc = "fill_read" /\ log = << >>) => buffer = << >>)
    /\ [][/\ (pc = "fill_clear") => buffer' = << >>
          /\ buffer' # buffer =>
                \/ pc \in {"fill_clear", "fill_push"}
                \/ pc = "main" /\ buffer' = << >>]_vars

\* An attempt that follows an overflow has begun: the full buffer was
\* emptied and the bytes left of the over-long line are still to be read.
C12_Witness ==
    /\ pc = "fill_read"
    /\ log = << >>
    /\ buffer = << >>
    /\ "Push" \in seen
    /\ rx # << >>

(***************************************************************************)
(* C15.  The conversion FillBufferError -> Error is total, one-to-one and  *)
(* keeps the payload: PushError(b) becomes Push(b), UarteError(e) becomes  *)
(* Uarte(e), Write becomes Write.  Whenever the collector has failed, the  *)
(* Error its failure converts to is the conversion of no other             *)
(* FillBufferError; the conversion of every FillBufferError is one of the  *)
(* three embedded variants; and the Error handed to the report carries the *)
(* payload of the failure, the rejected byte of an overflow included.      *)
(***************************************************************************)
Bytes == 0..255

FillBufferErrors ==
    {FillFromU8(b) : b \in Bytes}
        \cup {FillFromUarte(e) : e \in UarteErrors}
        \cup {FillFromFmt}

Embedded(f) ==
    CASE f.tag = "PushError" -> [tag |-> "Push", byte |-> f.byte]
      [] f.tag = "UarteError" -> [tag |-> "Uarte", uarte |-> f.uarte]
      [] f.tag = "Write" -> [tag |-> "Write"]

C15_LosslessConversion ==
    /\ [](pc = "fill_failed" =>
            /\ fillErr \in FillBufferErrors
            /\ \A g \in FillBufferErrors :
                  /\ ErrorFromFill(g).tag \in {"Push", "Uarte", "Write"}
                  /\ ErrorFromFill(g) = ErrorFromFill(fillErr) => g = fillErr)
    /\ [][(pc = "fill_failed") => err' = Embedded(fillErr)]_vars
    /\ []((pc = "report" /\ err.tag = "Push") => err.byte = byte)

\* An overflow has been converted: the Error names the rejected byte.
C15_Witness ==
    /\ pc = "report"
    /\ err = [tag |-> "Push", byte |-> byte]
    /\ byte # 0
    /\ Len(buffer) = Capacity
    /\ fillErr = NoError

(***************************************************************************)
(* C16.  Echo before push: during a read attempt the buffer is a prefix of *)
(* the bytes echoed in the attempt and the echoed bytes are as many as the *)
(* buffer holds or one more; a byte about to be pushed has been written    *)
(* and flushed; and when the attempt ends in overflow the rejected byte,   *)
(* the one after Capacity, has been echoed while the buffer holds Capacity *)
(* bytes.                                                                  *)
(***************************************************************************)
RECURSIVE Echoed(_)
Echoed(l) ==
    IF l = << >> THEN << >>
    ELSE LET e == Last(l)
             r == Echoed(SubSeq(l, 1, Len(l) - 1))
         IN  IF e.op = "write" /\ e.ok THEN r \o e.data ELSE r

Overflowed ==
    \/ pc = "fill_failed" /\ fillErr.tag = "PushError"
    \/ pc = "report" /\ err.tag = "Push"

RejectedByte == IF pc = "fill_failed" THEN fillErr.byte ELSE err.byte

C16_EchoBeforePush ==
    /\ InAttempt =>
          /\ IsPrefix(buffer, Echoed(log))
          /\ Len(Echoed(log)) \in {Len(buffer), Len(buffer) + 1}
    /\ pc = "fill_push" =>
          /\ Echoed(log) = Append(buffer, byte)
          /\ Last(log) = Event("flush", << >>, TRUE)
          /\ log[Len(log) - 1] = Event("write", << byte >>, TRUE)
    /\ Overflowed =>
          /\ Len(buffer) = Capacity
          /\ Echoed(log) = Append(buffer, RejectedByte)

\* An attempt has ended in overflow: 17 bytes echoed, 16 held.
C16_Witness ==
    /\ pc = "fill_failed"
    /\ fillErr.tag = "PushError"
    /\ Len(buffer) = Capacity
    /\ Len(Echoed(log)) = Capacity + 1
    /\ Last(Echoed(log)) = byte

(***************************************************************************)
(* C17.  No drain after an overflow.  When the first attempt on a line     *)
(* ends in overflow, all that follows the rejected byte (position          *)
(* Capacity + 1), the carriage return included, is still in the transport; *)
(* it stays there over the report and the prompt; the next attempt reads   *)
(* exactly these bytes, from position Capacity + 2 on, and when it reaches *)
(* the carriage return its word is the rest of the over-long line.         *)
(***************************************************************************)
Rest == SubSeq(line \o << CR >>, Capacity + 2, Len(line) + 1)

C17_NoDrain ==
    /\ (Overflowed /\ seen = {}) => rx = Rest
    /\ (seen = {"Push"} /\ pc \in {"prompt", "fill_clear"}) => rx = Rest
    /\ (seen = {"Push"} /\ InAttempt) =>
          /\ ReadBytes(log) \o rx = Rest
          /\ (pc = "fill_write" /\ Len(log) = 1) => byte = line[Capacity + 2]
          /\ pc = "parse" => buffer = SubSeq(line, Capacity + 2, Len(line))

\* The tail of an over-long line was read as the next word and dispatched.
C17_Witness ==
    /\ pc = "dispatch"
    /\ seen = {"Push"}
    /\ line \in TailLines
    /\ buffer = ACCELEROMETER
    /\ rx = << >>

(***************************************************************************)
(* 07-uart: the echo-only program.  echo_one_word (lines 54-76) collects a *)
(* line without echoing it and sends it back reversed; main (lines         *)
(* 104-108) calls it in a loop and unwraps its result.  The program uses   *)
(* the variables pc, rx, buffer, byte, err, log, faulty, line and seen;    *)
(* the others keep their initial values.                                   *)
(***************************************************************************)
\* The longest line the operator types at the echo program.
MaxEchoLen == 34

\* buffer: &mut Vec<u8, 32>
EchoCapacity == 32

\* "ERROR: Entered string too long, resetting!\r" and writeln!'s "\n"
TOO_LONG ==
    << 69, 82, 82, 79, 82, 58, 32, 69, 110, 116, 101, 114, 101, 100, 32, 115,
       116, 114, 105, 110, 103, 32, 116, 111, 111, 32, 108, 111, 110, 103, 44,
       32, 114, 101, 115, 101, 116, 116, 105, 110, 103, 33, 13, 10 >>

\* impl From<u8> for Error
EchoFromU8(value) == [tag |-> "PushError", byte |-> value]

\* impl From<core::fmt::Error> for Error
EchoFromFmt == [tag |-> "WriteError"]

\* impl From<microbit::hal::uarte::Error> for Error
EchoFromUarte(value) == [tag |-> "UarteError", uarte |-> value]

\* heapless::Vec<u8, 32>::push
EchoVecPush(v, b) ==
    IF Len(v) < EchoCapacity
    THEN [ok |-> TRUE, vec |-> Append(v, b), rejected |-> b]
    ELSE [ok |-> FALSE, vec |-> v, rejected |-> b]

\* <[u8]>::reverse
\* Faulty variant: the slice is left in the order it was typed.
Reverse_Identity(v) == v

Reverse(v) == [i \in 1..Len(v) |-> v[Len(v) + 1 - i]]

\* What the operator types: lines of distinct bytes of every length up to
\* MaxEchoLen, the empty line, a line of one repeated byte, a palindrome.
EchoLines ==
    { Ramp(n, s) : n \in 1..MaxEchoLen, s \in RampStarts }
    \cup { << >>, << 97, 97, 97 >>, << 97, 98, 97 >> }

EchoInit ==
    /\ pc = "echo_main"
    /\ rx = << >>
    /\ buffer = << >>
    /\ byte = 0
    /\ fillErr = NoError
    /\ err = NoError
    /\ cmd = "none"
    /\ data = NoData
    /\ log = << >>
    /\ faulty \in BOOLEAN
    /\ line = << >>
    /\ seen = {}
    /\ state = StateStart
    /\ image_buffer = Blank
    /\ rtt = << >>
    /\ frames = << >>

\* The operator types a line when the program waits for a byte and none is
\* pending.
EchoType ==
    /\ pc = "echo_read"
    /\ rx = << >>
    /\ \E l \in EchoLines :
          /\ line' = l
          /\ rx' = l \o << CR >>
    /\ seen' = {}
    /\ UNCHANGED << pc, buffer, byte, fillErr, err, cmd, data, log, faulty, led >>

\* loop { echo_one_word(&mut serial, &mut buffer) ... }
EchoCall ==
    /\ pc = "echo_main"
    /\ pc' = "echo_clear"
    /\ UNCHANGED << rx, buffer, byte, fillErr, err, cmd, data, log, faulty, line, seen, led >>

\* buffer.clear()
EchoClear ==
    /\ pc = "echo_clear"
    /\ buffer' = << >>
    /\ log' = << >>
    /\ pc' = "echo_read"
    /\ UNCHANGED << rx, byte, fillErr, err, cmd, data, faulty, line, seen, led >>

\* let byte = nb::block!(serial.read())?; if byte == b'\r'
EchoRead ==
    /\ pc = "echo_read"
    /\ \/ /\ rx # << >>
          /\ byte' = Head(rx)
          /\ rx' = Tail(rx)
          /\ log' = Append(log, Event("read", << Head(rx) >>, TRUE))
          /\ pc' = IF Head(rx) = CR THEN "echo_reverse" ELSE "echo_push"
          /\ UNCHANGED err
       \/ /\ faulty
          /\ \E e \in UarteErrors : err' = EchoFromUarte(e)
          /\ log' = Append(log, Event("read", << >>, FALSE))
          /\ pc' = "echo_return"
          /\ UNCHANGED << rx, byte >>
    /\ UNCHANGED << buffer, fillErr, cmd, data, faulty, line, seen, led >>

\* else if let Err(_) = buffer.push(byte)
\* Faulty variant: the overflow is returned to the caller, as buffer.push(byte)?
\* would.
EchoPush_Propagates ==
    /\ pc = "echo_push"
    /\ LET r == EchoVecPush(buffer, byte)
       IN  /\ buffer' = r.vec
           /\ pc' = IF r.ok THEN "echo_read" ELSE "echo_return"
           /\ err' = IF r.ok THEN err ELSE EchoFromU8(r.rejected)
    /\ UNCHANGED << rx, byte, fillErr, cmd, data, log, faulty, line, seen, led >>

EchoPush ==
    /\ pc = "echo_push"
    /\ LET r == EchoVecPush(buffer, byte)
       IN  /\ buffer' = r.vec
           /\ pc' = IF r.ok THEN "echo_read" ELSE "echo_too_long"
    /\ UNCHANGED << rx, byte, fillErr, err, cmd, data, log, faulty, line, seen, led >>

\* writeln!(serial, "ERROR: Entered string too long, resetting!\r")?
EchoTooLong ==
    /\ pc = "echo_too_long"
    /\ \E ok \in Outcomes :
          /\ log' = Append(log, Event("writeln", TOO_LONG, ok))
          /\ pc' = IF ok THEN "echo_too_long_flush" ELSE "echo_return"
          /\ err' = IF ok THEN err ELSE EchoFromFmt
    /\ UNCHANGED << rx, buffer, byte, fillErr, cmd, data, faulty, line, seen, led >>

\* nb::block!(serial.flush())?; return Ok(()) after the diagnostic
EchoTooLongFlush ==
    /\ pc = "echo_too_long_flush"
    /\ \/ /\ log' = Append(log, Event("flush", << >>, TRUE))
          /\ seen' = seen \cup {"TooLong"}
          /\ UNCHANGED err
       \/ /\ faulty
          /\ \E e \in UarteErrors : err' = EchoFromUarte(e)
          /\ log' = Append(log, Event("flush", << >>, FALSE))
          /\ UNCHANGED seen
    /\ pc' = "echo_return"
    /\ UNCHANGED << rx, buffer, byte, fillErr, cmd, data, faulty, line, led >>

\* buffer.reverse()
EchoReverse ==
    /\ pc = "echo_reverse"
    /\ buffer' = Reverse(buffer)
    /\ pc' = "echo_bwrite_all"
    /\ UNCHANGED << rx, byte, fillErr, err, cmd, data, log, faulty, line, seen, led >>

\* serial.bwrite_all(buffer.as_slice())?  A failed call has written some
\* of the bytes.
EchoBwriteAll ==
    /\ pc = "echo_bwrite_all"
    /\ \/ /\ log' = Append(log, Event("bwrite_all", buffer, TRUE))
          /\ pc' = "echo_newline"
          /\ UNCHANGED err
       \/ /\ faulty
          /\ \E e \in UarteErrors : err' = EchoFromUarte(e)
          /\ \E k \in 0..Len(buffer) :
                log' = Append(log, Event("bwrite_all", SubSeq(buffer, 1, k), FALSE))
          /\ pc' = "echo_return"
    /\ UNCHANGED << rx, buffer, byte, fillErr, cmd, data, faulty, line, seen, led >>

\* writeln!(serial, "\r")?
EchoNewline ==
    /\ pc = "echo_newline"
    /\ \E ok \in Outcomes :
          /\ log' = Append(log, Event("writeln", CRLF, ok))
          /\ pc' = IF ok THEN "echo_flush" ELSE "echo_return"
          /\ err' = IF ok THEN err ELSE EchoFromFmt
    /\ UNCHANGED << rx, buffer, byte, fillErr, cmd, data, faulty, line, seen, led >>

\* nb::block!(serial.flush())?; return Ok(()) after the echo
EchoFlush ==
    /\ pc = "echo_flush"
    /\ \/ /\ log' = Append(log, Event("flush", << >>, TRUE))
          /\ seen' = seen \cup {"Echo"}
          /\ UNCHANGED err
       \/ /\ faulty
          /\ \E e \in UarteErrors : err' = EchoFromUarte(e)
          /\ log' = Append(log, Event("flush", << >>, FALSE))
          /\ UNCHANGED seen
    /\ pc' = "echo_return"
    /\ UNCHANGED << rx, buffer, byte, fillErr, cmd, data, faulty, line, led >>

\* echo_one_word(..).unwrap() in main's loop
EchoUnwrap ==
    /\ pc = "echo_return"
    /\ pc' = Unwrap(err = NoError, "echo_main")
    /\ UNCHANGED << rx, buffer, byte, fillErr, err, cmd, data, log, faulty, line, seen, led >>

EchoProgram ==
    \/ EchoCall
    \/ EchoClear
    \/ EchoRead
    \/ EchoPush
    \/ EchoTooLong
    \/ EchoTooLongFlush
    \/ EchoReverse
    \/ EchoBwriteAll
    \/ EchoNewline
    \/ EchoFlush
    \/ EchoUnwrap

EchoNext == EchoType \/ EchoProgram

EchoSpec == EchoInit /\ [][EchoNext]_vars

(***************************************************************************)
(* Reading the log of one call of echo_one_word.                           *)
(***************************************************************************)
OnlyReads(l) == \A i \in 1..Len(l) : IsRead(l[i])

\* The log of a call that read the bytes w and then wrote the events out.
ReadsThen(w, out) ==
    [i \in 1..Len(w) |-> Event("read", << w[i] >>, TRUE)] \o out

TooLongOut ==
    << Event("writeln", TOO_LONG, TRUE), Event("flush", << >>, TRUE) >>

ReturnedOk == pc = "echo_return" /\ err = NoError

(***************************************************************************)
(* C13.  Overflow in the echo-only program.  The push that overflows is    *)
(* the one of the byte after EchoCapacity, with nothing written so far;    *)
(* the collector reads no further byte: when its writes succeed, the call  *)
(* returns success having written the "too long, resetting" diagnostic and *)
(* flushed, and nothing else.  No call ever returns a PushError; the       *)
(* program halts only after a failed transport call, so without transport  *)
(* failures the loop always has a next step; and every call, the one after *)
(* an overflow included, begins with an empty buffer.                      *)
(***************************************************************************)
C13_EchoOverflow ==
    /\ pc = "echo_too_long" =>
          /\ Len(buffer) = EchoCapacity
          /\ log = ReadsThen(Append(buffer, byte), << >>)
          /\ byte # CR
    /\ (ReturnedOk /\ Len(buffer) = EchoCapacity /\ Last(ReadBytes(log)) # CR) =>
          log = ReadsThen(Append(buffer, byte), TooLongOut)
    /\ err.tag # "PushError"
    /\ pc = "panicked" => (faulty /\ ~Last(log).ok /\ err.tag \in {"UarteError", "WriteError"})
    /\ ~faulty => ENABLED EchoNext
    /\ (pc = "echo_read" /\ log = << >>) => buffer = << >>
    /\ "TooLong" \in seen => Len(line) > EchoCapacity

\* The call after an overflow has begun, with an empty buffer and the rest
\* of the line still to be read.
C13_Witness ==
    /\ pc = "echo_read"
    /\ "TooLong" \in seen
    /\ log = << >>
    /\ buffer = << >>
    /\ rx # << >>

(***************************************************************************)
(* C20.  A line of n <= EchoCapacity bytes in the echo-only program.       *)
(* While the call collects, the log holds reads only: nothing is written   *)
(* before the carriage return is read.  A call that read the carriage      *)
(* return and returned success has written exactly the collected bytes in  *)
(* reverse order, then "\r\n", then flushed; when it is the first call on  *)
(* the line the collected bytes are the line.  The next call begins with   *)
(* an empty buffer.                                                        *)
(***************************************************************************)
\* r is w read backwards: the first byte of r is the last byte of w.
IsReversalOf(r, w) ==
    /\ Len(r) = Len(w)
    /\ \A i \in 1..Len(w) : r[i] = w[Len(w) + 1 - i]

\* The last three events of l: all of r in one write, "\r\n", the flush.
EndsWithEchoOf(l, w) ==
    /\ Len(l) = Len(w) + 4
    /\ l[Len(l) - 2].op = "bwrite_all"
    /\ l[Len(l) - 2].ok
    /\ IsReversalOf(l[Len(l) - 2].data, w)
    /\ l[Len(l) - 1] = Event("writeln", CRLF, TRUE)
    /\ l[Len(l)] = Event("flush", << >>, TRUE)

C20_ReverseEcho ==
    /\ pc \in {"echo_read", "echo_push", "echo_reverse"} =>
          /\ OnlyReads(log)
          /\ NoCR(buffer)
          /\ Len(buffer) <= EchoCapacity
    /\ pc = "echo_push" => ReadBytes(log) = Append(buffer, byte)
    /\ pc = "echo_reverse" => ReadBytes(log) = Append(buffer, CR)
    /\ (ReturnedOk /\ Last(ReadBytes(log)) = CR) =>
          LET w == WordBytes(log)
          IN  /\ Len(w) <= EchoCapacity
              /\ SubSeq(log, 1, Len(w) + 1) = ReadsThen(Append(w, CR), << >>)
              /\ EndsWithEchoOf(log, w)
              /\ seen = {"Echo"} => w = line
    /\ (pc = "echo_read" /\ log = << >>) => buffer = << >>
    /\ (Len(line) <= EchoCapacity) => "TooLong" \notin seen

\* A line of exactly EchoCapacity distinct bytes has been echoed reversed.
C20_Witness ==
    /\ ReturnedOk
    /\ seen = {"Echo"}
    /\ Len(line) = EchoCapacity
    /\ EndsWithEchoOf(log, line)
    /\ log[Len(log) - 2].data # line

(***************************************************************************)
(* 05-led-roulette: main (lines 75-94).  The program uses the variables    *)
(* pc, state, image_buffer, rtt and frames; it has no serial port.         *)
(***************************************************************************)
\* The number of frames the observer of the display keeps.
MaxFrames == 34

\* A frame: the image display.show was given and for how many milliseconds.
Frame(image, ms) == [image |-> image, ms |-> ms]

\* The last MaxFrames frames.
Window(f) == IF Len(f) > MaxFrames THEN Tail(f) ELSE f

LedInit ==
    /\ pc = "led_set"
    /\ rx = << >>
    /\ buffer = << >>
    /\ byte = 0
    /\ fillErr = NoError
    /\ err = NoError
    /\ cmd = "none"
    /\ data = NoData
    /\ log = << >>
    /\ faulty = FALSE
    /\ line = << >>
    /\ seen = {}
    /\ state = StateStart
    /\ image_buffer = Blank
    /\ rtt = << >>
    /\ frames = << >>

\* state.set(&mut image_buffer)
LedSet ==
    /\ pc = "led_set"
    /\ image_buffer' = StateSet(state, image_buffer)
    /\ rtt' = rtt \o AssignPrints(state)
    /\ pc' = "led_show"
    /\ UNCHANGED << state, frames, serial >>

\* display.show(&mut timer, image_buffer, STATE_TIME)
LedShow ==
    /\ pc = "led_show"
    /\ frames' = Window(Append(frames, Frame(image_buffer, STATE_TIME)))
    /\ pc' = "led_reset"
    /\ UNCHANGED << state, image_buffer, rtt, serial >>

\* state.reset(&mut image_buffer)
LedReset ==
    /\ pc = "led_reset"
    /\ image_buffer' = StateReset(state, image_buffer)
    /\ rtt' = rtt \o AssignPrints(state)
    /\ pc' = "led_next"
    /\ UNCHANGED << state, frames, serial >>

\* state = state.next()
LedAdvance ==
    /\ pc = "led_next"
    /\ \/ /\ state' = StateNext(state)
          /\ rtt' = rtt \o NextPrints(state)
          /\ pc' = "led_set"
       \/ /\ NextOverflows(state)
          /\ pc' = "panicked"
          /\ UNCHANGED << state, rtt >>
    /\ UNCHANGED << image_buffer, frames, serial >>

LedNext ==
    \/ LedSet
    \/ LedShow
    \/ LedReset
    \/ LedAdvance

LedSpec == LedInit /\ [][LedNext]_vars

\* The program is the only thread of control and display.show returns
\* after STATE_TIME milliseconds.
LedLiveSpec == LedSpec /\ WF_vars(LedNext)

(***************************************************************************)
(* Reading the display: cells are (row, column), both counted from 1 as    *)
(* the states count them.                                                  *)
(***************************************************************************)
Cells == (1..5) \X (1..5)

\* The cells of an image that are not 0.
Lit(image) == { cell \in Cells : image[cell[1] - 1][cell[2] - 1] # 0 }

OnBorder(cell) == cell[1] \in {1, 5} \/ cell[2] \in {1, 5}

\* The cell a state stands for.
CellOf(s) ==
    CASE s.tag = "Row1GoingRight" -> << 1, s.col >>
      [] s.tag = "Col5GoingDown" -> << s.row, 5 >>
      [] s.tag = "Row5GoingLeft" -> << 5, s.col >>
      [] s.tag = "Col1GoingUp" -> << s.row, 1 >>

\* The states whose coordinate is within the matrix.
ValidStates ==
    { Row1GoingRight(n) : n \in 1..5 } \cup { Col5GoingDown(n) : n \in 1..5 }
    \cup { Row5GoingLeft(n) : n \in 1..5 } \cup { Col1GoingUp(n) : n \in 1..5 }

(***************************************************************************)
(* C14.  The sequencer has no failure modes: every state reached from      *)
(* State::start() has its coordinate in 1..5; the `_` arms of next() and   *)
(* of assign() are never taken, so nothing is ever printed; no coordinate  *)
(* arithmetic leaves the range of u16 and the program never panics; the    *)
(* image buffer stays a 5x5 matrix of 0 and 1.  Moreover next() maps every *)
(* state within the matrix to a state within the matrix.                   *)
(***************************************************************************)
C14_NoFailureModes ==
    /\ state \in ValidStates
    /\ NextArm(state) # 9
    /\ AssignArm(state) # 5
    /\ ~NextOverflows(state)
    /\ rtt = << >>
    /\ pc # "panicked"
    /\ image_buffer \in [0..4 -> [0..4 -> {0, 1}]]
    /\ \A s \in ValidStates :
          /\ StateNext(s) \in ValidStates
          /\ NextArm(s) # 9
          /\ ~NextOverflows(s)

\* A lap and more has been shown and the state is the last of the left
\* column, about to turn into the top row.
C14_Witness ==
    /\ pc = "led_next"
    /\ state = Col1GoingUp(1)
    /\ Len(frames) >= 17
    /\ rtt = << >>

(***************************************************************************)
(* C18.  Whenever display.show is called the image buffer has exactly one  *)
(* cell at 1 and the other 24 at 0; the lit cell is the cell of the        *)
(* current state and lies on the border.  So every frame shown has exactly *)
(* one lit cell, on the border.                                            *)
(***************************************************************************)
OneLit(image) ==
    /\ Cardinality(Lit(image)) = 1
    /\ Cardinality(Cells \ Lit(image)) = 24
    /\ \A cell \in Lit(image) :
          /\ image[cell[1] - 1][cell[2] - 1] = 1
          /\ OnBorder(cell)

C18_OneBorderCell ==
    /\ pc = "led_show" =>
          /\ OneLit(image_buffer)
          /\ Lit(image_buffer) = {CellOf(state)}
    /\ \A i \in 1..Len(frames) : OneLit(frames[i].image)
    /\ pc = "led_reset" =>
          /\ Last(frames).image = image_buffer
          /\ Lit(image_buffer) = {CellOf(state)}

\* display.show is about to be called in the second lap, in the right
\* column.
C18_Witness ==
    /\ pc = "led_show"
    /\ state = Col5GoingDown(3)
    /\ Lit(image_buffer) = {<< 3, 5 >>}
    /\ Len(frames) >= 16

(***************************************************************************)
(* C19.  The animation is cyclic with period 16.  Each frame's lit cell is *)
(* the clockwise neighbour on the border of the lit cell of the frame      *)
(* before (top row left to right, right column top to bottom, bottom row   *)
(* right to left, left column bottom to top), never the same cell; any 16  *)
(* consecutive frames light 16 different cells, and a frame lights the     *)
(* cell of the frame 16 before it; the first frame lights the top-left     *)
(* corner, and so does every 16th frame after it; and every border cell is *)
(* shown again and again, forever.                                         *)
(***************************************************************************)
\* The border, clockwise from the top-left corner.
Border ==
    << << 1, 1 >>, << 1, 2 >>, << 1, 3 >>, << 1, 4 >>,
       << 1, 5 >>, << 2, 5 >>, << 3, 5 >>, << 4, 5 >>,
       << 5, 5 >>, << 5, 4 >>, << 5, 3 >>, << 5, 2 >>,
       << 5, 1 >>, << 4, 1 >>, << 3, 1 >>, << 2, 1 >> >>

\* The length of a lap.
Period == Len(Border)

\* The lit cell of the i-th frame kept.
LitCell(i) == CHOOSE cell \in Cells : cell \in Lit(frames[i].image)

\* The position of a border cell on the border.
BorderIndex(cell) == CHOOSE k \in 1..Period : Border[k] = cell

ClockwiseOf(cell) == Border[(BorderIndex(cell) % Period) + 1]

Shown(cell) == pc = "led_reset" /\ Lit(image_buffer) = {cell}

C19_Period16 ==
    /\ [](/\ \A i \in 1..Len(frames) - 1 :
                /\ LitCell(i + 1) = ClockwiseOf(LitCell(i))
                /\ LitCell(i + 1) # LitCell(i)
          /\ \A i, j \in 1..Len(frames) :
                /\ (i < j /\ j - i < Period) => LitCell(i) # LitCell(j)
                /\ (j - i = Period) => LitCell(i) = LitCell(j)
          /\ Len(frames) < MaxFrames =>
                \A i \in 1..Len(frames) :
                   /\ LitCell(i) = Border[((i - 1) % Period) + 1]
                   /\ frames[i].ms = STATE_TIME)
    /\ \A k \in 1..Period : []<>Shown(Border[k])

\* Two laps have been shown: frames 1, 17 and 33 light the top-left corner.
C19_Witness ==
    /\ pc = "led_reset"
    /\ Len(frames) = 33
    /\ state = Col1GoingUp(1)
    /\ LitCell(1) = << 1, 1 >>
    /\ LitCell(17) = << 1, 1 >>
    /\ LitCell(33) = << 1, 1 >>
    /\ LitCell(2) = << 1, 2 >>

====
